---- MODULE Spec2Model ----
(***************************************************************************)
(* Model of filament.py: the mask-aware adaptive threshold (threshold),    *)
(* the mask compositor (segment_filament) and the pipeline driver          *)
(* (detect_filament, batch_detect).                                        *)
(*                                                                         *)
(* Images are Height x Width grids indexed <<row, col>> from 0.  Floating  *)
(* point quotients are kept as exact num/den pairs; a zero denominator is  *)
(* the IEEE nan/inf that numpy's array division produces.                  *)
(***************************************************************************)
EXTENDS Integers, Naturals, Sequences, FiniteSets, Bags, TLC

\* ------------------------------------------------------------------------
\* Bounds of the model
\* ------------------------------------------------------------------------
Height == 5
Width == 5
MaxInstances == 2
MaxClock == 2

\* ------------------------------------------------------------------------
\* Program constants
\* ------------------------------------------------------------------------
max_value == 255            \* threshold(): max_value=255
size9 == 9                  \* threshold(): size=9
C4 == 4                     \* threshold(): C=4
MaskCut == 100              \* mask()/unmask(): b > 100
AdaptiveBlock == 69         \* cv2.adaptiveThreshold blockSize
AdaptiveC == 4              \* cv2.adaptiveThreshold C
BoxMargin == 10             \* cv2.rectangle corner offset
yuv_shift == 14             \* cv2 BGR2GRAY fixed point
B2Y == 1868
G2Y == 9617
R2Y == 4899

Rows == 0 .. (Height - 1)
Cols == 0 .. (Width - 1)
Pix == Rows \X Cols

None == "None"

\* ------------------------------------------------------------------------
\* threshold() and its nested helpers
\* ------------------------------------------------------------------------

\* thresh(a, b, max_value, C): `max_value if a > b - C else 0`.  b is the
\* float quotient num/den; with den = 0 it is nan or inf and the comparison
\* a > b - C is False.
thresh_inv(a, b, mv, C) ==
    IF b.den # 0 /\ a * b.den > b.num - C * b.den THEN 0 ELSE mv

thresh(a, b, mv, C) ==
    IF b.den # 0 /\ a * b.den > b.num - C * b.den THEN mv ELSE 0

\* mask(a, b): `a if b > 100 else 0`
mask(a, b) == IF b > MaskCut THEN a ELSE 0

\* unmask(a, b, c): `b if c > 100 else a`
unmask_swapped(a, b, c) == IF c > MaskCut THEN a ELSE b

\* unmask that keeps the binarised value everywhere
unmask_binarised(a, b, c) == b

unmask(a, b, c) == IF c > MaskCut THEN b ELSE a

\* A grid as an explicit table: every sample is computed once, as an array
\* assignment does, before the next array expression reads it.
Array(f) == IF f = f THEN f ELSE f

\* block_size(size): ones((size, size)) with the centre element set to 0
block_size(size) ==
    Array([ij \in (0 .. (size - 1)) \X (0 .. (size - 1)) |->
        IF ij[1] = (size - 1) \div 2 /\ ij[2] = (size - 1) \div 2 THEN 0 ELSE 1])

\* Index extension of scipy's boundary='symm' (one mirror reflection about
\* the edge; the images of the model are at least (size-1)/2 wide and high).
Symm(i, n) == IF i < 0 THEN -1 - i ELSE IF i >= n THEN 2 * n - 1 - i ELSE i

\* Value an out-of-range index reads under boundary='fill' (fillvalue 0).
InRange(i, n) == i >= 0 /\ i < n

\* f[0] + ... + f[n] for non-negative terms: the size of the bag that holds
\* f[k] + 1 copies of every index k, less the n + 1 extra copies.
SumTo(f, n) == BagCardinality([k \in 0 .. n |-> f[k] + 1]) - (n + 1)

\* signal.convolve2d(in, block, mode='same', boundary='symm'):
\* out[y,x] = sum over (i,j) of block[i,j] * in[y + c - i, x + c - j].
convolve2d(in, block, size) ==
    LET c == (size - 1) \div 2
        term(y, x) ==
            [k \in 0 .. (size * size - 1) |->
                LET i == k \div size
                    j == k % size
                IN block[<<i, j>>]
                     * in[<<Symm(y + c - i, Height), Symm(x + c - j, Width)>>]]
    IN Array([p \in Pix |-> SumTo(term(p[1], p[2]), size * size - 1)])

\* The same convolution with boundary='fill': out-of-range samples are 0.
convolve2d_fill(in, block, size) ==
    LET c == (size - 1) \div 2
        term(y, x) ==
            [k \in 0 .. (size * size - 1) |->
                LET i == k \div size
                    j == k % size
                IN IF InRange(y + c - i, Height) /\ InRange(x + c - j, Width)
                   THEN block[<<i, j>>] * in[<<y + c - i, x + c - j>>]
                   ELSE 0]
    IN Array([p \in Pix |-> SumTo(term(p[1], p[2]), size * size - 1)])

\* get_number_neighbours(mask, block): mask / 255.0 convolved with block.
\* The masks of the program hold only 0 and 255, so mask / 255.0 is 0.0 or 1.0.
get_number_neighbours_fill(m, block, size) ==
    convolve2d_fill(Array([p \in Pix |-> m[p] \div 255]), block, size)

get_number_neighbours(m, block, size) ==
    convolve2d(Array([p \in Pix |-> m[p] \div 255]), block, size)

\* mean_conv = conv / get_number_neighbours(mask, block), elementwise.
mean_conv_of(image, m, size) ==
    LET block == block_size(size)
        conv == convolve2d(image, block, size)
        cnt == get_number_neighbours(m, block, size)
    IN Array([p \in Pix |-> [num |-> conv[p], den |-> cnt[p]]])

\* masked_adaptive_threshold(image, mask, max_value, size, C)
masked_adaptive_threshold(image, m, mv, size, C) ==
    LET mean_conv == mean_conv_of(image, m, size)
    IN [p \in Pix |-> thresh(image[p], mean_conv[p], mv, C)]

\* cv2.adaptiveThreshold(image, 255, ADAPTIVE_THRESH_MEAN_C, THRESH_BINARY,
\* blockSize, C): the box-filter mean (separable row and column sums over
\* blockSize samples, BORDER_REPLICATE, rounded to 8 bits), then
\* dst = 255 if src > mean - C else 0.
Clamp(i, n) == IF i < 0 THEN 0 ELSE IF i >= n THEN n - 1 ELSE i

boxFilter(image, bs) ==
    LET h == (bs - 1) \div 2
        rowsum == Array([p \in Pix |->
            SumTo([k \in 0 .. (bs - 1) |->
                      image[<<p[1], Clamp(p[2] + k - h, Width)>>]], bs - 1)])
        colsum == Array([p \in Pix |->
            SumTo([k \in 0 .. (bs - 1) |->
                      rowsum[<<Clamp(p[1] + k - h, Height), p[2]>>]], bs - 1)])
    IN Array([p \in Pix |-> (2 * colsum[p] + bs * bs) \div (2 * bs * bs)])

adaptiveThreshold(image, mv, bs, C) ==
    LET mean == boxFilter(image, bs)
    IN Array([p \in Pix |-> IF image[p] > mean[p] - C THEN mv ELSE 0])

\* cv2.bitwise_not on 8-bit samples
bitwise_not(m) == Array([p \in Pix |-> 255 - m[p]])

\* The locals of threshold(image) when it returns.
threshold_locals(image) ==
    LET m == bitwise_not(adaptiveThreshold(image, 255, AdaptiveBlock, AdaptiveC))
        masked == Array([p \in Pix |-> mask(image[p], m[p])])
        mean_conv == mean_conv_of(masked, m, size9)
        binarised == [p \in Pix |-> thresh(masked[p], mean_conv[p], max_value, C4)]
        unmasked == [p \in Pix |-> unmask(image[p], binarised[p], m[p])]
    IN [mask |-> m, masked |-> masked, mean_conv |-> mean_conv,
        result |-> [p \in Pix |-> unmasked[p] % 256]]

threshold(image) == threshold_locals(image).result

\* ------------------------------------------------------------------------
\* segment_filament()
\* ------------------------------------------------------------------------

\* cv2.cvtColor(binary, cv2.COLOR_BGR2GRAY) on one 3-channel 8-bit pixel:
\* fixed-point weights on channels 0, 1, 2 with rounding.
cvtColor(px) ==
    (px[1] * B2Y + px[2] * G2Y + px[3] * R2Y + 2 ^ (yuv_shift - 1))
        \div (2 ^ yuv_shift)

\* mask.shape[-1]: masks is a sequence of N instance slices, each the set
\* of pixels where the slice is True.
NumInstances(masks) == Len(masks)

\* np.sum(mask, -1, keepdims=True) at pixel p
SumInstances(masks, p) == Cardinality({i \in 1 .. Len(masks) : p \in masks[i]})

\* (np.sum(mask, -1, keepdims=True) >= 1)
collapse(masks) == [p \in Pix |-> SumInstances(masks, p) >= 1]

\* np.where(mask, image, binary) with binary filled with 255
where_swapped(m, image) ==
    [p \in Pix |-> IF m[p] THEN <<255, 255, 255>> ELSE image[p]]

where(m, image) ==
    [p \in Pix |-> IF m[p] THEN image[p] ELSE <<255, 255, 255>>]

\* The locals of segment_filament(mask, image, image_path) for a stack with
\* at least one instance: the composite, its greyscale and threshold().
segment_locals(masks, image) ==
    LET m == collapse(masks)
        binary == where(m, image)
        grey == Array([p \in Pix |-> cvtColor(binary[p])])
        t == threshold_locals(grey)
    IN [composite |-> binary, grey |-> grey, mask |-> t.mask,
        masked |-> t.masked, mean_conv |-> t.mean_conv, filament |-> t.result]

\* ------------------------------------------------------------------------
\* Paths and glob.glob
\* ------------------------------------------------------------------------
Slash == "/"
Dot == "."
DotPng == <<".", "p", "n", "g">>
Dir_d == <<"d">>
Dir_dSlash == <<"d", "/">>
File_a == <<"d", "/", "a">> \o DotPng
File_b == <<"d", "/", "b">> \o DotPng
File_c == <<"d", "/", "c", ".", "t", "x", "t">>
File_hidden == <<"d", "/", ".", "h">> \o DotPng
File_da == <<"d", "a">> \o DotPng
Universe == {File_a, File_b, File_c, File_hidden, File_da}

\* Position of the last "/" of a path, 0 when it has none
LastSlash(s) ==
    LET at == {i \in 1 .. Len(s) : s[i] = Slash}
    IN IF at = {} THEN 0 ELSE CHOOSE i \in at : \A j \in at : j <= i

\* str(image_path).split('/')[-1]
BaseName(s) == SubSeq(s, LastSlash(s) + 1, Len(s))

\* file_ext[-1].split('.')[0]
Stem(s) ==
    LET b == BaseName(s)
        at == {i \in 1 .. Len(b) : b[i] = Dot}
    IN IF at = {} THEN b
       ELSE SubSeq(b, 1, (CHOOSE i \in at : \A j \in at : i <= j) - 1)

StartsWith(s, pre) == Len(s) >= Len(pre) /\ SubSeq(s, 1, Len(pre)) = pre
EndsWith(s, suf) ==
    Len(s) >= Len(suf) /\ SubSeq(s, Len(s) - Len(suf) + 1, Len(s)) = suf

\* glob.glob(prefix + "*.png"): the paths whose directory part is the
\* directory part of the pattern and whose last component matches
\* <rest of prefix>*.png; a leading "." is matched only by a literal ".".
glob(files, prefix) ==
    {f \in files :
        /\ LastSlash(f) = LastSlash(prefix)
        /\ StartsWith(f, prefix)
        /\ EndsWith(f, DotPng)
        /\ Len(f) >= Len(prefix) + Len(DotPng)
        /\ (BaseName(f)[1] = Dot => BaseName(prefix) # <<>> /\ BaseName(prefix)[1] = Dot)}

\* The orders in which glob.glob may list a set of paths (directory order)
Orderings(S) ==
    {q \in [1 .. Cardinality(S) -> S] : \A i, j \in 1 .. Cardinality(S) : q[i] = q[j] => i = j}

\* ------------------------------------------------------------------------
\* Inputs: pictures, detector results, grey images and masks
\* ------------------------------------------------------------------------
All == Pix
Left == {p \in Pix : p[2] < Width \div 2}
Centre == {<<Height \div 2, Width \div 2>>}

White == <<255, 255, 255>>
Black == <<0, 0, 0>>
Grey200 == <<200, 200, 200>>
Dark == <<50, 60, 70>>
Darker == <<40, 40, 40>>
Green == <<10, 200, 30>>

ColourTriples ==
    {<<Dark, Grey200, Grey200>>, <<Darker, Dark, Grey200>>,
     <<White, Black, Green>>, <<Green, Darker, Dark>>}

\* A picture: one colour at the centre, one on the left, one elsewhere
Picture(t) ==
    [p \in Pix |-> IF p \in Centre THEN t[1] ELSE IF p \in Left THEN t[2] ELSE t[3]]

Pictures == {Picture(t) : t \in ColourTriples}

\* One detected instance: its mask slice and its box (y1, x1, y2, x2)
Instances ==
    {[slice |-> All, box |-> <<0, 0, Height, Width>>],
     [slice |-> Left, box |-> <<1, 2, 3, 4>>],
     [slice |-> Centre, box |-> <<50, 60, 150, 160>>]}

RECURSIVE SeqsUpTo(_, _)
SeqsUpTo(S, n) ==
    IF n = 0 THEN {<<>>}
    ELSE LET shorter == SeqsUpTo(S, n - 1)
         IN shorter \cup {Append(q, e) : q \in shorter, e \in S}

\* model.detect([image])[0]: r['masks'] and r['rois'], one entry per instance
Detections ==
    {[masks |-> [i \in 1 .. Len(q) |-> q[i].slice],
      rois |-> [i \in 1 .. Len(q) |-> q[i].box]] : q \in SeqsUpTo(Instances, MaxInstances)}

GreyLevels == {0, 50, 60, 255}
GreyImages ==
    {[p \in Pix |-> IF p \in Centre THEN a ELSE IF p \in Left THEN b ELSE c] :
        a \in GreyLevels, b \in GreyLevels, c \in {60, 200, 255}}

MaskInputs == {[p \in Pix |-> IF p \in R THEN 255 ELSE 0] : R \in {All, Left, Centre, {}}}

\* ------------------------------------------------------------------------
\* State
\* ------------------------------------------------------------------------
VARIABLES
    command,      \* args.command: "train", "detect", "batch", or a direct
                  \* call of "threshold" / "masked_adaptive_threshold"
    dataset,      \* args.dataset
    image_arg,    \* args.image
    dir_path,     \* args.dir
    fs,           \* the paths that exist
    corrupt,      \* the paths skimage.io.imread cannot decode
    picture,      \* what imread returns for a readable file
    detection,    \* what model.detect returns for that picture
    arg,          \* arguments of a direct call of the threshold functions
    pc,           \* position in the program
    model,        \* the MaskRCNN model: None, "created" or "loaded"
    files,        \* batch_detect: files
    idx,          \* batch_detect: position of x in files
    invoked,      \* image_path of every detect_filament call so far
    now,          \* datetime.datetime.now(), in seconds
    image_path,   \* detect_filament: image_path
    log_ts,       \* second formatted into log_filename
    binary_ts,    \* second formatted into file_name_binary
    start_time,   \* detect_filament: start_time
    r,            \* detect_filament: r
    seg,          \* locals of the last segment_filament / threshold call
    rects,        \* the cv2.rectangle calls of the current detect_filament
    results       \* the files written under results/

vars == <<command, dataset, image_arg, dir_path, fs, corrupt, picture,
          detection, arg, pc, model, files, idx, invoked, now, image_path,
          log_ts, binary_ts,
          start_time, r, seg, rects, results>>

env == <<command, dataset, image_arg, dir_path, fs, corrupt, picture, detection,
         arg>>

Fresh ==
    /\ model = None
    /\ files = <<>>
    /\ idx = 0
    /\ invoked = <<>>
    /\ now = 0
    /\ image_path = None
    /\ log_ts = None
    /\ binary_ts = None
    /\ start_time = None
    /\ r = None
    /\ seg = None
    /\ rects = <<>>
    /\ results = {}

\* python3 filament.py detect --image=...
InitDetect ==
    /\ command = "detect"
    /\ pc = "validate"
    /\ dataset = None
    /\ image_arg = File_a
    /\ dir_path = None
    /\ fs = Universe
    /\ corrupt \in {{}, {File_a}}
    /\ picture \in Pictures
    /\ detection \in Detections
    /\ arg = None
    /\ Fresh

\* python3 filament.py batch --dir=...
InitBatch ==
    /\ command = "batch"
    /\ pc = "validate"
    /\ dataset = None
    /\ image_arg = None
    /\ dir_path \in {Dir_d, Dir_dSlash}
    /\ fs \in {Universe \ S : S \in {{}, {File_a}, {File_b}, {File_c}, {File_hidden}, {File_da}}}
    /\ corrupt \in {{}, {File_a} \cap fs}
    /\ picture = Picture(<<Dark, Grey200, Grey200>>)
    /\ detection \in {d \in Detections : Len(d.rois) <= 1 /\ \A i \in 1 .. Len(d.rois) : d.masks[i] = Left}
    /\ arg = None
    /\ Fresh

\* python3 filament.py train [--dataset=...]
InitTrain ==
    /\ command = "train"
    /\ pc = "validate"
    /\ dataset \in {None, Dir_dSlash}
    /\ image_arg = None
    /\ dir_path = None
    /\ fs = Universe
    /\ corrupt = {}
    /\ picture = Picture(<<Dark, Grey200, Grey200>>)
    /\ detection \in {d \in Detections : Len(d.rois) = 0}
    /\ arg = None
    /\ Fresh

\* python3 filament.py detect / batch without --image / --dir
InitMissingFlag ==
    /\ command \in {"detect", "batch"}
    /\ pc = "validate"
    /\ dataset = None
    /\ image_arg = None
    /\ dir_path = None
    /\ fs = Universe
    /\ corrupt = {}
    /\ picture = Picture(<<Dark, Grey200, Grey200>>)
    /\ detection \in {d \in Detections : Len(d.rois) = 0}
    /\ arg = None
    /\ Fresh

Init == InitDetect \/ InitBatch \/ InitTrain \/ InitMissingFlag

\* ------------------------------------------------------------------------
\* __main__: argument validation, model creation, weights
\* ------------------------------------------------------------------------

\* if command == "train": assert args.dataset
\* elif command == "detect": assert args.image
ValidateArguments ==
    /\ pc = "validate"
    /\ LET asserted == IF command = "train" THEN dataset # None
                       ELSE IF command = "detect" THEN image_arg # None
                       ELSE TRUE
       IN pc' = (IF asserted THEN "create_model" ELSE "assertion_error")
    /\ UNCHANGED <<env, model, files, idx, invoked, now, image_path, log_ts,
                   binary_ts, start_time, r, seg, rects, results>>

\* model = modellib.MaskRCNN(mode=..., config=config, model_dir=args.logs)
CreateModel ==
    /\ pc = "create_model"
    /\ model' = "created"
    /\ pc' = "load_weights"
    /\ UNCHANGED <<env, files, idx, invoked, now, image_path, log_ts,
                   binary_ts, start_time, r, seg, rects, results>>

\* model.load_weights(weights_path, by_name=True)
LoadWeights ==
    /\ pc = "load_weights"
    /\ model' = "loaded"
    /\ pc' = "main"
    /\ UNCHANGED <<env, files, idx, invoked, now, image_path, log_ts,
                   binary_ts, start_time, r, seg, rects, results>>

\* train(model)
MainTrain ==
    /\ pc = "main"
    /\ command = "train"
    /\ pc' = "done"
    /\ UNCHANGED <<env, model, files, idx, invoked, now, image_path, log_ts,
                   binary_ts, start_time, r, seg, rects, results>>

\* ------------------------------------------------------------------------
\* __main__ dispatch and batch_detect
\* ------------------------------------------------------------------------

\* detect_filament(model, image_path=args.image)
MainDetect ==
    /\ pc = "main"
    /\ command = "detect"
    /\ image_path' = image_arg
    /\ invoked' = Append(invoked, image_arg)
    /\ pc' = "detect_open"
    /\ UNCHANGED <<env, model, files, idx, now, log_ts, binary_ts,
                   start_time, r, seg, rects, results>>

\* batch_detect: files = glob.glob(dir_path + "*.png"); None + "*.png"
\* raises TypeError.
BatchGlob ==
    /\ pc = "main"
    /\ command = "batch"
    /\ IF dir_path = None
       THEN /\ pc' = "raised"
            /\ UNCHANGED <<files, idx>>
       ELSE /\ files' \in Orderings(glob(fs, dir_path))
            /\ idx' = 1
            /\ pc' = "batch_loop"
    /\ UNCHANGED <<env, model, invoked, now, image_path, log_ts, binary_ts,
                   start_time, r, seg, rects, results>>

\* batch_detect: for x in files: detect_filament(model, x)
BatchNext ==
    /\ pc = "batch_loop"
    /\ IF idx <= Len(files)
       THEN /\ image_path' = files[idx]
            /\ invoked' = Append(invoked, files[idx])
            /\ rects' = <<>>
            /\ pc' = "detect_open"
       ELSE /\ pc' = "done"
            /\ UNCHANGED <<image_path, invoked, rects>>
    /\ UNCHANGED <<env, model, files, idx, now, log_ts, binary_ts,
                   start_time, r, seg, results>>

\* ------------------------------------------------------------------------
\* detect_filament
\* ------------------------------------------------------------------------
OutFile(path, ts, kind, data) ==
    [stem |-> Stem(path), ts |-> ts, kind |-> kind, data |-> data]

\* log_filename = ...format(datetime.datetime.now()); open(log_filename, "a")
DetectOpenLog ==
    /\ pc = "detect_open"
    /\ log_ts' = now
    /\ results' = results \cup {OutFile(image_path, now, ".txt", None)}
    /\ pc' = "detect_run"
    /\ UNCHANGED <<env, model, files, idx, invoked, now, image_path,
                   binary_ts, start_time, r, seg, rects>>

\* start_time = now(); imread; model.detect; file_name_binary =
\* ...format(start_time).  An unreadable image raises out of imread.
DetectRun ==
    /\ pc = "detect_run"
    /\ start_time' = now
    /\ IF image_path \in fs /\ image_path \notin corrupt
       THEN /\ r' = detection
            /\ binary_ts' = now
            /\ pc' = "detect_segment"
       ELSE /\ pc' = "raised"
            /\ UNCHANGED <<r, binary_ts>>
    /\ UNCHANGED <<env, model, files, idx, invoked, now, image_path, log_ts,
                   seg, rects, results>>

\* start_time = now(); segment_filament(mask, image, file_name_binary):
\* with at least one instance the thresholded composite is written.
DetectSegment ==
    /\ pc = "detect_segment"
    /\ start_time' = now
    /\ IF NumInstances(r.masks) > 0
       THEN /\ seg' = segment_locals(r.masks, picture)
            /\ results' = results \cup
                   {OutFile(image_path, binary_ts, "_binary.png", seg'.filament)}
       ELSE UNCHANGED <<seg, results>>
    /\ pc' = "detect_render"
    /\ UNCHANGED <<env, model, files, idx, invoked, now, image_path, log_ts,
                   binary_ts, r, rects>>

\* cv2.rectangle(image, (rect[i][1]-10, rect[i][0]-10),
\*                      (rect[i][3]+10, rect[i][2]+10), ...)
rectangle_rowcol(rect) ==
    <<<<rect[1] - BoxMargin, rect[2] - BoxMargin>>,
      <<rect[3] + BoxMargin, rect[4] + BoxMargin>>>>

rectangle(rect) ==
    <<<<rect[2] - BoxMargin, rect[1] - BoxMargin>>,
      <<rect[4] + BoxMargin, rect[3] + BoxMargin>>>>

\* The border, mask and bbox files, named with start_time; one rectangle
\* per entry of r['rois'] is drawn before the bbox file is written.
DetectRender ==
    /\ pc = "detect_render"
    /\ rects' = [i \in 1 .. Len(r.rois) |-> rectangle(r.rois[i])]
    /\ results' = results \cup
           {OutFile(image_path, start_time, "_border.png", None),
            OutFile(image_path, start_time, "_mask.png", None),
            OutFile(image_path, start_time, "_bbox.png", rects')}
    /\ IF command = "batch"
       THEN /\ idx' = idx + 1
            /\ pc' = "batch_loop"
       ELSE /\ pc' = "done"
            /\ UNCHANGED idx
    /\ UNCHANGED <<env, model, files, invoked, now, image_path, log_ts,
                   binary_ts, start_time, r, seg>>

\* A second passes while detect_filament runs
Tick ==
    /\ pc \in {"detect_open", "detect_run", "detect_segment", "detect_render"}
    /\ now < MaxClock
    /\ now' = now + 1
    /\ UNCHANGED <<env, model, pc, files, idx, invoked, image_path, log_ts,
                   binary_ts, start_time, r, seg, rects, results>>

Next ==
    \/ ValidateArguments
    \/ CreateModel
    \/ LoadWeights
    \/ MainTrain
    \/ MainDetect
    \/ BatchGlob
    \/ BatchNext
    \/ DetectOpenLog
    \/ DetectRun
    \/ DetectSegment
    \/ DetectRender
    \/ Tick

Spec == Init /\ [][Next]_vars

\* ------------------------------------------------------------------------
\* Direct calls of threshold() and masked_adaptive_threshold()
\* ------------------------------------------------------------------------
InitThreshold ==
    /\ \/ /\ command = "threshold"
          /\ arg \in {[image |-> g, mask |-> None] : g \in GreyImages}
       \/ /\ command = "masked_adaptive_threshold"
          /\ arg \in {[image |-> g, mask |-> m] : g \in GreyImages, m \in MaskInputs}
    /\ pc = "main"
    /\ dataset = None
    /\ image_arg = None
    /\ dir_path = None
    /\ fs = {}
    /\ corrupt = {}
    /\ picture = None
    /\ detection = None
    /\ Fresh

\* threshold(image)
CallThreshold ==
    /\ pc = "main"
    /\ command = "threshold"
    /\ LET t == threshold_locals(arg.image)
       IN seg' = [composite |-> None, grey |-> arg.image, mask |-> t.mask,
                  masked |-> t.masked, mean_conv |-> t.mean_conv,
                  filament |-> t.result]
    /\ pc' = "returned"
    /\ UNCHANGED <<env, model, files, idx, invoked, now, image_path, log_ts,
                   binary_ts, start_time, r, rects, results>>

\* masked_adaptive_threshold(image, mask, max_value=255, size=9, C=4)
CallMaskedAdaptiveThreshold ==
    /\ pc = "main"
    /\ command = "masked_adaptive_threshold"
    /\ seg' = [composite |-> None, grey |-> arg.image, mask |-> arg.mask,
               masked |-> arg.image,
               mean_conv |-> mean_conv_of(arg.image, arg.mask, size9),
               filament |-> masked_adaptive_threshold(arg.image, arg.mask,
                                                      max_value, size9, C4)]
    /\ pc' = "returned"
    /\ UNCHANGED <<env, model, files, idx, invoked, now, image_path, log_ts,
                   binary_ts, start_time, r, rects, results>>

NextThreshold == CallThreshold \/ CallMaskedAdaptiveThreshold

SpecThreshold == InitThreshold /\ [][NextThreshold]_vars

\* ------------------------------------------------------------------------
\* Properties
\* ------------------------------------------------------------------------
Range(q) == {q[i] : i \in 1 .. Len(q)}

\* The neighbours of p in a size x size window, centre excluded, as the
\* list of the pixels they mirror onto.
Neighbours(p, size) ==
    LET c == (size - 1) \div 2
        offs == {d \in (0 - c .. c) \X (0 - c .. c) : d # <<0, 0>>}
    IN [d \in offs |-> <<Symm(p[1] + d[1], Height), Symm(p[2] + d[2], Width)>>]

\* Sum of g over the neighbours of p that satisfy counted
RECURSIVE SumNeighbours(_, _, _, _)
SumNeighbours(nb, todo, g, counted) ==
    IF todo = {} THEN 0
    ELSE LET d == CHOOSE d \in todo : TRUE
         IN (IF counted[nb[d]] THEN g[nb[d]] ELSE 0)
              + SumNeighbours(nb, todo \ {d}, g, counted)

\* The files of results/ written for image path
FilesOf(path) == {f \in results : f.stem = Stem(path)}

\* C1: segment_filament with an output path and a stack of zero instances
\* writes one image file at that path whose every pixel is 255.
C1_EmptyStackWritesBlank ==
    (pc = "detect_render" /\ NumInstances(r.masks) = 0) =>
        \E f \in FilesOf(image_path) :
            /\ f.kind = "_binary.png"
            /\ f.ts = binary_ts
            /\ f.data = [p \in Pix |-> 255]

\* C2: in batch mode a failure of detect_filament on one image never
\* prevents detect_filament from being invoked on the remaining images.
C2_BatchSurvivesFailure ==
    (command = "batch" /\ pc \in {"raised", "done"}) =>
        \A k \in 1 .. Len(files) : files[k] \in Range(invoked)

\* C3: the division neighbour_sum / neighbour_count is never performed with
\* a zero divisor.
C3_NoZeroDivisor ==
    (pc = "returned" /\ command = "threshold") =>
        \A p \in Pix : seg.mean_conv[p].den # 0

\* C4: with M the inverted first-pass mask, a pixel with M > 100 is 255 when
\* its masked value exceeds the mean of its counted neighbours (window 9)
\* less 4 and 0 otherwise; a pixel with M <= 100 keeps its input value.
C4_PerPixelRule ==
    (pc = "returned" /\ command = "threshold") =>
        LET M == seg.mask
            counted == [q \in Pix |-> M[q] > MaskCut]
            ones == [q \in Pix |-> 1]
        IN \A p \in Pix :
            LET nb == Neighbours(p, 9)
                total == SumNeighbours(nb, DOMAIN nb, arg.image, counted)
                cnt == SumNeighbours(nb, DOMAIN nb, ones, counted)
                above == cnt > 0 /\ arg.image[p] * cnt > total - 4 * cnt
            IN IF M[p] > 100
               THEN seg.filament[p] = (IF above THEN 255 ELSE 0)
               ELSE seg.filament[p] = arg.image[p]

C4_Witness ==
    /\ pc = "returned"
    /\ command = "threshold"
    /\ \E p, q, u \in Pix :
        /\ seg.mask[p] > 100 /\ seg.filament[p] = 255
        /\ seg.mask[q] > 100 /\ seg.filament[q] = 0
        /\ seg.mask[u] <= 100 /\ seg.filament[u] \notin {0, 255}

\* C5: for a stack of N >= 1 instances the greyscale composite handed to
\* threshold holds the image's value where some instance slice is true and
\* 255 elsewhere; with one all-true slice it is the image itself.
C5_CompositeIsImageOrBlank ==
    (pc = "detect_render" /\ NumInstances(r.masks) >= 1) =>
        /\ \A p \in Pix :
            IF \E i \in 1 .. Len(r.masks) : p \in r.masks[i]
            THEN seg.composite[p] = picture[p] /\ seg.grey[p] = cvtColor(picture[p])
            ELSE seg.composite[p] = <<255, 255, 255>> /\ seg.grey[p] = 255
        /\ (Len(r.masks) = 1 /\ r.masks[1] = Pix) => seg.composite = picture

C5_Witness ==
    /\ pc = "detect_render"
    /\ NumInstances(r.masks) = 2
    /\ \E p, q \in Pix :
        /\ p \in r.masks[1] /\ p \notin r.masks[2] /\ picture[p] # White
        /\ q \notin r.masks[1] /\ q \notin r.masks[2] /\ picture[q] # White

\* C6: detect_filament draws one rectangle per box (y1, x1, y2, x2) of
\* r['rois'], with corners (x1-10, y1-10) and (x2+10, y2+10), and no other;
\* box (50, 60, 150, 160) gives corners (50, 40) and (170, 160).
C6_OneRectanglePerBox ==
    (pc \in {"done", "batch_loop"} /\ image_path # None) =>
        /\ Len(rects) = Len(r.rois)
        /\ \A i \in 1 .. Len(r.rois) :
            LET y1 == r.rois[i][1]
                x1 == r.rois[i][2]
                y2 == r.rois[i][3]
                x2 == r.rois[i][4]
            IN /\ rects[i] = <<<<x1 - 10, y1 - 10>>, <<x2 + 10, y2 + 10>>>>
               /\ r.rois[i] = <<50, 60, 150, 160>> =>
                      rects[i] = <<<<50, 40>>, <<170, 160>>>>

C6_Witness ==
    /\ pc = "done"
    /\ Len(rects) = 2
    /\ r.rois[2] = <<50, 60, 150, 160>>
    /\ rects[2] = <<<<50, 40>>, <<170, 160>>>>
    /\ rects[1] # rects[2]

\* C7: with every pixel counted (mask 255 everywhere) the local mean of
\* masked_adaptive_threshold is, at every pixel, the sum of the mirrored
\* window's neighbours divided by size*size - 1.
C7_FullMaskPlainMean ==
    (pc = "returned" /\ command = "masked_adaptive_threshold"
        /\ arg.mask = [p \in Pix |-> 255]) =>
        \A p \in Pix :
            LET nb == Neighbours(p, 9)
                total == SumNeighbours(nb, DOMAIN nb, arg.image, [q \in Pix |-> TRUE])
                m == seg.mean_conv[p]
            IN /\ m.den # 0
               /\ m.num * (9 * 9 - 1) = total * m.den

C7_Witness ==
    /\ pc = "returned"
    /\ command = "masked_adaptive_threshold"
    /\ arg.mask = [p \in Pix |-> 255]
    /\ \E p, q \in Pix :
        seg.mean_conv[p].num * seg.mean_conv[q].den
            # seg.mean_conv[q].num * seg.mean_conv[p].den

\* C8: for a fixed local mean m the rule thresh(a, m, 255, 4) is idempotent
\* on every sample value a in 0..255.
C8_ThreshIdempotent ==
    pc = "returned" =>
        \A p \in Pix : \A a \in 0 .. 255 :
            LET m == seg.mean_conv[p]
            IN thresh(thresh(a, m, 255, 4), m, 255, 4) = thresh(a, m, 255, 4)

C8_Witness ==
    /\ pc = "returned"
    /\ command = "threshold"
    /\ \E p \in Pix :
        LET m == seg.mean_conv[p]
        IN /\ m.den # 0
           /\ thresh(255, m, 255, 4) = 255
           /\ thresh(0, m, 255, 4) = 0
           /\ seg.mask[p] > 100

\* C9: the five output files of one processed image carry the same
\* timestamp.
C9_OneTimestamp ==
    (pc \in {"done", "batch_loop"} /\ image_path # None) =>
        \A f, g \in FilesOf(image_path) : f.ts = g.ts

\* C10: batch_detect invokes detect_filament exactly once for every .png
\* file located in the directory dir_path and for no other file, whether or
\* not dir_path ends with a path separator.
InDirectory(f, d) ==
    LET dir == IF d[Len(d)] = Slash THEN d ELSE Append(d, Slash)
    IN StartsWith(f, dir) /\ LastSlash(f) = Len(dir)

C10_EveryPngOnce ==
    (command = "batch" /\ pc = "done") =>
        /\ Range(invoked) = {f \in fs : InDirectory(f, dir_path) /\ EndsWith(f, DotPng)}
        /\ \A i, j \in 1 .. Len(invoked) : invoked[i] = invoked[j] => i = j

\* C11: for train, detect and batch a missing required path flag
\* (--dataset, --image, --dir) fails at argument validation, before the
\* model is created or weights are loaded.
MissingFlag ==
    \/ command = "train" /\ dataset = None
    \/ command = "detect" /\ image_arg = None
    \/ command = "batch" /\ dir_path = None

C11_MissingFlagFailsFast ==
    MissingFlag => (model = None /\ pc \in {"validate", "assertion_error"})

\* C12: every pixel that is 255 in the greyscale composite is background in
\* the inverted first-pass mask and 255 in threshold's output; hence, for
\* N >= 1, every pixel outside all instance masks is 255 in the written
\* binary file, whatever the image's value there.
C12_BlankStaysBlank ==
    (pc = "detect_render" /\ NumInstances(r.masks) >= 1) =>
        /\ \A p \in Pix :
            seg.grey[p] = 255 => (seg.mask[p] <= 100 /\ seg.filament[p] = 255)
        /\ \E f \in FilesOf(image_path) :
            /\ f.kind = "_binary.png"
            /\ f.ts = binary_ts
            /\ \A p \in Pix :
                (\A i \in 1 .. Len(r.masks) : p \notin r.masks[i]) => f.data[p] = 255

C12_Witness ==
    /\ pc = "detect_render"
    /\ NumInstances(r.masks) >= 1
    /\ \E p, q \in Pix :
        /\ \A i \in 1 .. Len(r.masks) : p \notin r.masks[i]
        /\ cvtColor(picture[p]) < 100
        /\ seg.filament[p] = 255
        /\ \E i \in 1 .. Len(r.masks) : q \in r.masks[i]
        /\ seg.filament[q] # 255

====
